---------------------------- MODULE Spec2Model ----------------------------
(* Sliding-tile puzzle (NEURO SNAP): the board engine of                    *)
(* src/utils/puzzleUtils.ts and the game session of src/App.tsx.            *)
(*                                                                          *)
(* Arrays are functions over 0..len-1, so that indexes are the code's.      *)
(* Tile objects live in a heap (ref -> fields); a board is an array of      *)
(* refs, because the code copies arrays ([...tiles]) but shares and         *)
(* mutates the tile objects they hold.                                      *)
EXTENDS Integers, Sequences, FiniteSets, Bags, TLC

VARIABLES
    difficulty,   \* App.tsx:14  useState<Difficulty>
    tiles,        \* App.tsx:15  useState<Tile[]>: array of refs into heap
    heap,         \* the Tile objects the boards share: ref -> Tile fields
    gameState,    \* App.tsx:16
    moves,        \* App.tsx:17
    timeElapsed,  \* App.tsx:18
    currentImage, \* App.tsx:20
    error,        \* App.tsx:22
    timerActive,  \* App.tsx:24  an interval of timerRef is running
    pending,      \* bag of asynchronous operations in flight
    lastOp,       \* harness of CoreSpec only: the operation applied last
    issued,       \* history: requests the user has issued (bounds the model)
    limits,       \* the bounds this run is explored under (never changes)
    swapsDone     \* harness of CoreSpec only: swaps applied since the factory

vars == <<difficulty, tiles, heap, gameState, moves, timeElapsed,
          currentImage, error, timerActive, pending, lastOp, issued, limits, swapsDone>>

-----------------------------------------------------------------------------
(* Program constants (src/unnamed/part_000, src/App.tsx)                    *)

EASY == 3
MEDIUM == 4
HARD == 5
Difficulties == {EASY, MEDIUM, HARD}
GameStates == {"IDLE", "GENERATING", "PLAYING", "WON"}
DEFAULT_IMAGE == "default"
ShuffleFactor == 20
NoImage == "null"
NoError == "null"

(* Bounds of the model                                                      *)
\* Spec: requests the user issues after the mount, steps after which
\* handleStartGame's walk is cut, the move counter and the elapsed time at
\* which clicks and ticks stop
MaxRequests == 1
MaxShuffleSteps == 1
MaxMoves == 1
MaxTime == 1
\* DeepSpec: the same four bounds, for the longer runs
DeepRequests == 1
DeepShuffleSteps == 2
DeepMoves == 2
DeepTime == 1
\* CoreSpec: stepCount of one shuffle, swaps applied to one factory board
MaxStepCount == 3
MaxSwaps == 4

-----------------------------------------------------------------------------
(* JavaScript helpers                                                       *)

Range(s) == {s[i] : i \in DOMAIN s}
Min(a, b) == IF a < b THEN a ELSE b
Abs(a) == IF a < 0 THEN -a ELSE a
\* the % operator: the sign of the result is the sign of the dividend
JsRem(a, b) == IF a >= 0 THEN a % b ELSE -((-a) % b)
ArrayLength(arr) == Cardinality(DOMAIN arr)
EmptyArray == <<>>

\* tiles.findIndex(t => t.isEmpty): the first index, or -1
findEmptyIndex(arr, hp) ==
    LET found == {i \in DOMAIN arr : hp[arr[i]].isEmpty}
    IN  IF found = {} THEN -1
        ELSE CHOOSE i \in found : \A j \in found : i <= j

-----------------------------------------------------------------------------
(* puzzleUtils.ts                                                           *)

\* the pieces pushed by the row/col loops, in row-major order
sliceImage(imageSrc, gridSize) ==
    [k \in 0..(gridSize * gridSize - 1) |->
        [src |-> imageSrc, row |-> k \div gridSize, col |-> k % gridSize]]

generateSolvedStateNoEmptyTile(imagePieces, gridSize) ==
    [index \in DOMAIN imagePieces |->
        [id |-> index,
         currentPos |-> index,
         correctPos |-> index,
         imageUrl |-> imagePieces[index],
         isEmpty |-> (index = gridSize * gridSize)]]

\* the fresh Tile objects of generateSolvedState: object `index` of the heap
generateSolvedState(imagePieces, gridSize) ==
    [index \in DOMAIN imagePieces |->
        [id |-> index,
         currentPos |-> index,
         correctPos |-> index,
         imageUrl |-> imagePieces[index],
         isEmpty |-> (index = gridSize * gridSize - 1)]]

\* the array generateSolvedState returns: object `index` at index `index`
solvedArray(imagePieces) == [index \in DOMAIN imagePieces |-> index]

isSolved(arr, hp) ==
    \A i \in DOMAIN arr : hp[arr[i]].currentPos = hp[arr[i]].correctPos

validMovesNoRightCheck(emptyIdx, gridSize) ==
    LET row == emptyIdx \div gridSize
        col == JsRem(emptyIdx, gridSize)
    IN  (IF row > 0 THEN <<emptyIdx - gridSize>> ELSE <<>>)
        \o (IF row < gridSize - 1 THEN <<emptyIdx + gridSize>> ELSE <<>>)
        \o (IF col > 0 THEN <<emptyIdx - 1>> ELSE <<>>)
        \o <<emptyIdx + 1>>

\* lines 87-94: Up, Down, Left, Right
validMoves(emptyIdx, gridSize) ==
    LET row == emptyIdx \div gridSize
        col == JsRem(emptyIdx, gridSize)
    IN  (IF row > 0 THEN <<emptyIdx - gridSize>> ELSE <<>>)
        \o (IF row < gridSize - 1 THEN <<emptyIdx + gridSize>> ELSE <<>>)
        \o (IF col > 0 THEN <<emptyIdx - 1>> ELSE <<>>)
        \o (IF col < gridSize - 1 THEN <<emptyIdx + 1>> ELSE <<>>)

shuffleTargetsUnfiltered(emptyIdx, previousIdx, gridSize) ==
    LET vm == validMoves(emptyIdx, gridSize)
        filteredMoves == vm
    IN  IF Len(filteredMoves) > 0 THEN Range(filteredMoves) ELSE Range(vm)

\* lines 97-100: the indexes Math.random can select
shuffleTargets(emptyIdx, previousIdx, gridSize) ==
    LET vm == validMoves(emptyIdx, gridSize)
        filteredMoves == SelectSeq(vm, LAMBDA idx : idx # previousIdx)
    IN  IF Len(filteredMoves) > 0 THEN Range(filteredMoves) ELSE Range(vm)

swapObjectsWritingCorrectPos(arr, hp, a, b) ==
    LET newTiles == [arr EXCEPT ![a] = arr[b], ![b] = arr[a]]
        hp1 == [hp EXCEPT ![newTiles[a]].correctPos = a]
        hp2 == [hp1 EXCEPT ![newTiles[b]].correctPos = b]
    IN  [tiles |-> newTiles, heap |-> hp2]

\* the swap both shuffleTiles (103-118) and handleTileClick (88-94) make, for
\* a and b inside the array: a copy of the array with the two refs exchanged,
\* and currentPos written into the two (shared) objects, first a then b
swapObjects(arr, hp, a, b) ==
    LET newTiles == [arr EXCEPT ![a] = arr[b], ![b] = arr[a]]
        hp1 == [hp EXCEPT ![newTiles[a]].currentPos = a]
        hp2 == [hp1 EXCEPT ![newTiles[b]].currentPos = b]
    IN  [tiles |-> newTiles, heap |-> hp2]

\* one iteration of the loop (lines 86-123) on a run [tiles, heap, emptyIdx,
\* previousIdx, threw] towards targetIdx. Reading newTiles[k] outside the
\* array gives undefined, and `undefined.currentPos = ...` throws a
\* TypeError: the loop ends there, with the objects written so far changed.
shuffleIteration(run, targetIdx) ==
    LET e == run.emptyIdx
        arr == run.tiles
        hp == run.heap
    IN  IF e \in DOMAIN arr /\ targetIdx \in DOMAIN arr
        THEN LET sw == swapObjects(arr, hp, e, targetIdx)
             IN  [tiles |-> sw.tiles, heap |-> sw.heap, emptyIdx |-> targetIdx,
                  previousIdx |-> e, threw |-> FALSE]
        ELSE IF e \in DOMAIN arr
        THEN \* newTiles[emptyIdx] is undefined: line 117 throws
             [run EXCEPT !.threw = TRUE]
        ELSE IF targetIdx \in DOMAIN arr
        THEN \* emptyIdx = -1: line 117 writes the object, line 118 throws
             [run EXCEPT !.threw = TRUE,
                         !.heap = [hp EXCEPT ![arr[targetIdx]].currentPos = e]]
        ELSE [run EXCEPT !.threw = TRUE]

shuffleStep(runs, gridSize) ==
    UNION {
        IF run.threw THEN {run}
        ELSE LET targets == shuffleTargets(run.emptyIdx, run.previousIdx, gridSize)
             IN  IF targets = {} THEN {[run EXCEPT !.threw = TRUE]}
                 ELSE {shuffleIteration(run, t) : t \in targets}
        : run \in runs}

RECURSIVE shuffleLoopOneMore(_, _, _)
shuffleLoopOneMore(runs, gridSize, n) ==
    IF n < 0 THEN runs
    ELSE shuffleLoopOneMore(shuffleStep(runs, gridSize), gridSize, n - 1)

\* for (let i = 0; i < moves; i++), line 86
RECURSIVE shuffleLoop(_, _, _)
shuffleLoop(runs, gridSize, n) ==
    IF n <= 0 THEN runs ELSE shuffleLoop(shuffleStep(runs, gridSize), gridSize, n - 1)

\* every run Math.random allows: the returned array and the heap after it,
\* or threw = TRUE with the heap as the iterations before the throw left it
shuffleTiles(initialTiles, hp, gridSize, stepCount) ==
    shuffleLoop({[tiles |-> initialTiles, heap |-> hp,
                  emptyIdx |-> findEmptyIndex(initialTiles, hp),
                  previousIdx |-> -1, threw |-> FALSE]},
                gridSize, stepCount)

-----------------------------------------------------------------------------
(* App.tsx: handleTileClick's adjacency test and move                       *)

isAdjacentOneSided(index, emptyIndex, gridSize) ==
    LET row == index \div gridSize
        col == JsRem(index, gridSize)
        emptyRow == emptyIndex \div gridSize
        emptyCol == JsRem(emptyIndex, gridSize)
    IN  \/ (row - emptyRow = 1 /\ col = emptyCol)
        \/ (col - emptyCol = 1 /\ row = emptyRow)

isAdjacentNoRowCheck(index, emptyIndex, gridSize) ==
    LET row == index \div gridSize
        col == JsRem(index, gridSize)
        emptyRow == emptyIndex \div gridSize
        emptyCol == JsRem(emptyIndex, gridSize)
    IN  \/ (Abs(row - emptyRow) = 1 /\ col = emptyCol)
        \/ (Abs(col - emptyCol) = 1)

isAdjacent(index, emptyIndex, gridSize) ==
    LET row == index \div gridSize
        col == JsRem(index, gridSize)
        emptyRow == emptyIndex \div gridSize
        emptyCol == JsRem(emptyIndex, gridSize)
    IN  \/ (Abs(row - emptyRow) = 1 /\ col = emptyCol)
        \/ (Abs(col - emptyCol) = 1 /\ row = emptyRow)

\* lines 74-96 on the board: [accepted, tiles, heap]
attemptMove(arr, hp, gridSize, index) ==
    LET emptyIndex == findEmptyIndex(arr, hp)
    IN  IF isAdjacent(index, emptyIndex, gridSize)
        THEN LET sw == swapObjects(arr, hp, index, emptyIndex)
             IN  [accepted |-> TRUE, tiles |-> sw.tiles, heap |-> sw.heap]
        ELSE [accepted |-> FALSE, tiles |-> arr, heap |-> hp]

-----------------------------------------------------------------------------
(* Asynchronous operations in flight. A request is                          *)
(*   kind   "slice"     an initializeBoard call awaiting sliceImage         *)
(*          "genslice"  the same, awaited by handleGenerateImage (line 126) *)
(*          "generate"  handleGenerateImage awaiting generatePuzzleImage    *)
(*          "read"      handleFileUpload's FileReader                       *)
(*   grid   the difficulty the initializeBoard closure captured (line 42)   *)
(*   img    the image source                                                *)
(*   reset  handleReset issued it                                           *)
(*   hard   the prompt the handler captured contains "hard" (line 128)      *)
(*   stale  history: initializeBoard was called again after this call       *)

Request(kind, grid, img, reset, hard) ==
    [kind |-> kind, grid |-> grid, img |-> img, reset |-> reset,
     hard |-> hard, stale |-> FALSE]

SliceKinds == {"slice", "genslice"}

markStale(r) == IF r.kind \in SliceKinds THEN [r EXCEPT !.stale = TRUE] ELSE r

RECURSIVE markAll(_, _)
markAll(S, B) ==
    IF S = {} THEN EmptyBag
    ELSE LET r == CHOOSE x \in S : TRUE
         IN  (markStale(r) :> B[r]) (+) markAll(S \ {r}, B)

\* a call of initializeBoard: every call still in flight is now an older one
issueSlice(B, r) == markAll(BagToSet(B), B) (+) SetToBag({r})
\* a FileReader or a generation starts: no initializeBoard call yet
issueOther(B, r) == B (+) SetToBag({r})
complete(B, r) == B (-) SetToBag({r})

\* the prompts a user types (line 225): blank ones are refused at line 120
Prompts == {"", "cat", "hard cat"}
promptIsBlank(p) == p = ""
promptIsHard(p) == p = "hard cat"

NoOp == [name |-> "none", arg |-> 0]

-----------------------------------------------------------------------------
(* The session (App.tsx)                                                    *)

\* lines 14-25 and the mount effect (45-54): initializeBoard(DEFAULT_IMAGE)
Init ==
    /\ difficulty = EASY
    /\ tiles = EmptyArray
    /\ heap = EmptyArray
    /\ gameState = "IDLE"
    /\ moves = 0
    /\ timeElapsed = 0
    /\ currentImage = NoImage
    /\ error = NoError
    /\ timerActive = FALSE
    /\ pending = SetToBag({Request("slice", EASY, DEFAULT_IMAGE, FALSE, FALSE)})
    /\ lastOp = NoOp
    /\ issued = 0
    /\ limits = [requests |-> MaxRequests, steps |-> MaxShuffleSteps,
                 moves |-> MaxMoves, time |-> MaxTime]
    /\ swapsDone = 0

\* the image the difficulty effect re-slices (lines 47-52)
effectImage(img) == IF img = NoImage THEN DEFAULT_IMAGE ELSE img

\* Controls.tsx:57 setDifficulty(d), then the effect of lines 45-54
SetDifficulty(d) ==
    /\ gameState # "PLAYING"
    /\ d # difficulty
    /\ issued < limits.requests
    /\ issued' = issued + 1
    /\ difficulty' = d
    /\ pending' = issueSlice(pending,
                     Request("slice", d, effectImage(currentImage), FALSE, FALSE))
    /\ UNCHANGED <<tiles, heap, gameState, moves, timeElapsed,
                   currentImage, error, timerActive, lastOp, limits, swapsDone>>

\* Controls.tsx:111 and App.tsx:181: where the Start / Play Again click exists
startEnabled ==
    \/ gameState \in {"IDLE", "WON"} /\ currentImage # NoImage
    \/ gameState = "WON"

startStepCount(d) == Min(d * ShuffleFactor, limits.steps)

StartGameKeepingMoves ==
    /\ startEnabled
    /\ \E run \in shuffleTiles(tiles, heap, difficulty, startStepCount(difficulty)) :
          /\ heap' = run.heap
          /\ IF run.threw
             THEN UNCHANGED <<tiles, gameState, moves, timeElapsed, timerActive>>
             ELSE /\ tiles' = run.tiles
                  /\ gameState' = "PLAYING"
                  /\ moves' = moves
                  /\ timeElapsed' = 0
                  /\ timerActive' = TRUE
    /\ UNCHANGED <<difficulty, currentImage, error, pending, lastOp, issued, limits, swapsDone>>

\* handleStartGame (105-111); a TypeError inside shuffleTiles leaves the
\* handler before any setState
StartGame ==
    /\ startEnabled
    /\ \E run \in shuffleTiles(tiles, heap, difficulty, startStepCount(difficulty)) :
          /\ heap' = run.heap
          /\ IF run.threw
             THEN UNCHANGED <<tiles, gameState, moves, timeElapsed, timerActive>>
             ELSE /\ tiles' = run.tiles
                  /\ gameState' = "PLAYING"
                  /\ moves' = 0
                  /\ timeElapsed' = 0
                  /\ timerActive' = TRUE
    /\ UNCHANGED <<difficulty, currentImage, error, pending, lastOp, issued, limits, swapsDone>>

handleTileClickCountingEveryClick(index) ==
    LET mv == attemptMove(tiles, heap, difficulty, index)
        accepted == gameState = "PLAYING" /\ mv.accepted
        won == accepted /\ isSolved(mv.tiles, mv.heap)
    IN  [tiles |-> IF accepted THEN mv.tiles ELSE tiles,
         heap |-> IF accepted THEN mv.heap ELSE heap,
         moves |-> moves + 1,
         gameState |-> IF won THEN "WON" ELSE gameState,
         timeElapsed |-> timeElapsed,
         error |-> error]

\* handleTileClick (71-103): the state it leaves; line 72 returns at once
\* outside PLAYING, and the handler sets neither timeElapsed nor error
handleTileClick(index) ==
    LET mv == attemptMove(tiles, heap, difficulty, index)
        accepted == gameState = "PLAYING" /\ mv.accepted
        won == accepted /\ isSolved(mv.tiles, mv.heap)
    IN  [tiles |-> IF accepted THEN mv.tiles ELSE tiles,
         heap |-> IF accepted THEN mv.heap ELSE heap,
         moves |-> IF accepted THEN moves + 1 ELSE moves,
         gameState |-> IF won THEN "WON" ELSE gameState,
         timeElapsed |-> timeElapsed,
         error |-> error]

\* a click on a tile button of the board (Board.tsx:43)
TileClick(index) ==
    /\ gameState = "PLAYING"
    /\ moves < limits.moves
    /\ index \in DOMAIN tiles
    /\ LET out == handleTileClick(index)
       IN  /\ tiles' = out.tiles
           /\ heap' = out.heap
           /\ moves' = out.moves
           /\ gameState' = out.gameState
           /\ timeElapsed' = out.timeElapsed
           /\ error' = out.error
           /\ timerActive' = (out.gameState = "PLAYING")
    /\ UNCHANGED <<difficulty, currentImage, pending, lastOp, issued, limits,
                   swapsDone>>

\* handleReset (113-117), the Give Up button of Controls.tsx:101-107
Reset ==
    /\ gameState = "PLAYING"
    /\ issued < limits.requests
    /\ issued' = issued + 1
    /\ currentImage # NoImage
    /\ pending' = issueSlice(pending,
                     Request("slice", difficulty, currentImage, TRUE, FALSE))
    /\ UNCHANGED <<difficulty, tiles, heap, gameState, moves, timeElapsed,
                   currentImage, error, timerActive, lastOp, limits, swapsDone>>

\* handleGenerateImage up to its first await (119-125), with the prompt p typed
\* in the textarea (enabled exactly where the button is, lines 228 and 233)
Generate(p) ==
    /\ ~promptIsBlank(p)
    /\ gameState \notin {"GENERATING", "PLAYING"}
    /\ issued < limits.requests
    /\ issued' = issued + 1
    /\ gameState' = "GENERATING"
    /\ error' = NoError
    /\ timerActive' = FALSE
    /\ pending' = issueOther(pending,
                     Request("generate", difficulty, "generated", FALSE,
                             promptIsHard(p)))
    /\ UNCHANGED <<difficulty, tiles, heap, moves, timeElapsed,
                   currentImage, lastOp, limits, swapsDone>>

GenerateDoneStayingGenerating(r, ok) ==
    /\ r \in BagToSet(pending)
    /\ r.kind = "generate"
    /\ IF ok
       THEN /\ pending' = issueSlice(complete(pending, r),
                             Request("genslice", r.grid, r.img, FALSE, r.hard))
            /\ UNCHANGED <<gameState, error, timerActive>>
       ELSE /\ pending' = complete(pending, r)
            /\ error' = "generate"
            /\ gameState' = gameState
            /\ timerActive' = FALSE
    /\ UNCHANGED <<difficulty, tiles, heap, moves, timeElapsed,
                   currentImage, lastOp, issued, limits, swapsDone>>

\* generatePuzzleImage settles: line 126 calls initializeBoard, or the catch
\* of lines 129-132 runs
GenerateDone(r, ok) ==
    /\ r \in BagToSet(pending)
    /\ r.kind = "generate"
    /\ IF ok
       THEN /\ pending' = issueSlice(complete(pending, r),
                             Request("genslice", r.grid, r.img, FALSE, r.hard))
            /\ UNCHANGED <<gameState, error, timerActive>>
       ELSE /\ pending' = complete(pending, r)
            /\ error' = "generate"
            /\ gameState' = "IDLE"
            /\ timerActive' = FALSE
    /\ UNCHANGED <<difficulty, tiles, heap, moves, timeElapsed,
                   currentImage, lastOp, issued, limits, swapsDone>>

\* handleFileUpload (135-146): the FileReader starts
Upload ==
    /\ gameState # "PLAYING"
    /\ issued < limits.requests
    /\ issued' = issued + 1
    /\ pending' = issueOther(pending,
                     Request("read", difficulty, "upload", FALSE, FALSE))
    /\ UNCHANGED <<difficulty, tiles, heap, gameState, moves, timeElapsed,
                   currentImage, error, timerActive, lastOp, limits, swapsDone>>

\* reader.onload (139-143) calls initializeBoard; a failed read calls nothing
ReadDone(r, ok) ==
    /\ r \in BagToSet(pending)
    /\ r.kind = "read"
    /\ pending' = IF ok
                  THEN issueSlice(complete(pending, r),
                                  Request("slice", r.grid, r.img, FALSE, FALSE))
                  ELSE complete(pending, r)
    /\ UNCHANGED <<difficulty, tiles, heap, gameState, moves, timeElapsed,
                   currentImage, error, timerActive, lastOp, issued, limits, swapsDone>>

SliceDoneKeepingTime(r, ok) ==
    /\ r \in BagToSet(pending)
    /\ r.kind \in SliceKinds
    /\ IF ok
       THEN LET pieces == sliceImage(r.img, r.grid)
            IN  /\ heap' = generateSolvedState(pieces, r.grid)
                /\ tiles' = solvedArray(pieces)
                /\ currentImage' = r.img
                /\ gameState' = "IDLE"
                /\ moves' = 0
                /\ timeElapsed' = timeElapsed
                /\ timerActive' = FALSE
                /\ UNCHANGED error
       ELSE /\ error' = "load"
            /\ UNCHANGED <<tiles, heap, currentImage, gameState, moves,
                           timeElapsed, timerActive>>
    /\ IF r.kind = "genslice" /\ r.hard /\ difficulty # HARD
       THEN /\ difficulty' = HARD
            /\ pending' = issueSlice(complete(pending, r),
                             Request("slice", HARD, effectImage(currentImage'),
                                     FALSE, FALSE))
       ELSE /\ pending' = complete(pending, r)
            /\ UNCHANGED difficulty
    /\ UNCHANGED <<lastOp, issued, limits, swapsDone>>

\* sliceImage settles inside initializeBoard (30-41); for a call awaited by
\* handleGenerateImage, line 128 follows in both cases (initializeBoard never
\* rejects), and a changed difficulty runs the effect of lines 45-54
SliceDone(r, ok) ==
    /\ r \in BagToSet(pending)
    /\ r.kind \in SliceKinds
    /\ IF ok
       THEN LET pieces == sliceImage(r.img, r.grid)
            IN  /\ heap' = generateSolvedState(pieces, r.grid)
                /\ tiles' = solvedArray(pieces)
                /\ currentImage' = r.img
                /\ gameState' = "IDLE"
                /\ moves' = 0
                /\ timeElapsed' = 0
                /\ timerActive' = FALSE
                /\ UNCHANGED error
       ELSE /\ error' = "load"
            /\ UNCHANGED <<tiles, heap, currentImage, gameState, moves,
                           timeElapsed, timerActive>>
    /\ IF r.kind = "genslice" /\ r.hard /\ difficulty # HARD
       THEN /\ difficulty' = HARD
            /\ pending' = issueSlice(complete(pending, r),
                             Request("slice", HARD, effectImage(currentImage'),
                                     FALSE, FALSE))
       ELSE /\ pending' = complete(pending, r)
            /\ UNCHANGED difficulty
    /\ UNCHANGED <<lastOp, issued, limits, swapsDone>>

TickInAnyState ==
    /\ timeElapsed < limits.time
    /\ timeElapsed' = timeElapsed + 1
    /\ UNCHANGED <<difficulty, tiles, heap, gameState, moves,
                   currentImage, error, timerActive, pending, lastOp, issued, limits, swapsDone>>

\* the interval of lines 59-61
Tick ==
    /\ timerActive
    /\ timeElapsed < limits.time
    /\ timeElapsed' = timeElapsed + 1
    /\ UNCHANGED <<difficulty, tiles, heap, gameState, moves,
                   currentImage, error, timerActive, pending, lastOp, issued, limits, swapsDone>>

Next ==
    \/ \E d \in Difficulties : SetDifficulty(d)
    \/ StartGame
    \/ \E index \in DOMAIN tiles : TileClick(index)
    \/ Reset
    \/ \E p \in Prompts : Generate(p)
    \/ \E r \in BagToSet(pending), ok \in BOOLEAN : GenerateDone(r, ok)
    \/ Upload
    \/ \E r \in BagToSet(pending), ok \in BOOLEAN : ReadDone(r, ok)
    \/ \E r \in BagToSet(pending), ok \in BOOLEAN : SliceDone(r, ok)
    \/ Tick

Spec == Init /\ [][Next]_vars

\* the same session under the wider bounds
DeepInit ==
    /\ difficulty = EASY
    /\ tiles = EmptyArray
    /\ heap = EmptyArray
    /\ gameState = "IDLE"
    /\ moves = 0
    /\ timeElapsed = 0
    /\ currentImage = NoImage
    /\ error = NoError
    /\ timerActive = FALSE
    /\ pending = SetToBag({Request("slice", EASY, DEFAULT_IMAGE, FALSE, FALSE)})
    /\ lastOp = NoOp
    /\ issued = 0
    /\ limits = [requests |-> DeepRequests, steps |-> DeepShuffleSteps,
                 moves |-> DeepMoves, time |-> DeepTime]
    /\ swapsDone = 0

DeepSpec == DeepInit /\ [][Next]_vars

-----------------------------------------------------------------------------
(* The board engine alone: factory, shuffle and move applied as pure        *)
(* functions to an n x n board with the same n, any stepCount.              *)

coreBoard(d) ==
    LET pieces == sliceImage(DEFAULT_IMAGE, d)
    IN  [tiles |-> solvedArray(pieces), heap |-> generateSolvedState(pieces, d)]

CoreInit ==
    /\ difficulty \in Difficulties
    /\ tiles = coreBoard(difficulty).tiles
    /\ heap = coreBoard(difficulty).heap
    /\ gameState = "IDLE"
    /\ moves = 0
    /\ timeElapsed = 0
    /\ currentImage = DEFAULT_IMAGE
    /\ error = NoError
    /\ timerActive = FALSE
    /\ pending = EmptyBag
    /\ lastOp = [name |-> "factory", arg |-> difficulty]
    /\ issued = 0
    /\ limits = [requests |-> 0, steps |-> MaxStepCount, moves |-> MaxSwaps,
                 time |-> 0]
    /\ swapsDone = 0

sessionVars == <<gameState, moves, timeElapsed, currentImage, error,
                 timerActive, pending, issued, limits>>

\* generateSolvedState(sliceImage(img, d), d)
CoreFactory(d) ==
    /\ difficulty' = d
    /\ tiles' = coreBoard(d).tiles
    /\ heap' = coreBoard(d).heap
    /\ lastOp' = [name |-> "factory", arg |-> d]
    /\ swapsDone' = 0
    /\ UNCHANGED sessionVars

\* shuffleTiles(tiles, difficulty, stepCount)
CoreShuffle(stepCount) ==
    /\ swapsDone + stepCount <= limits.moves
    /\ \E run \in shuffleTiles(tiles, heap, difficulty, stepCount) :
          /\ heap' = run.heap
          /\ tiles' = IF run.threw THEN tiles ELSE run.tiles
    /\ lastOp' = [name |-> "shuffle", arg |-> stepCount]
    /\ swapsDone' = swapsDone + stepCount
    /\ UNCHANGED difficulty
    /\ UNCHANGED sessionVars

\* lines 74-96 of handleTileClick
CoreMove(index) ==
    /\ swapsDone < limits.moves
    /\ LET mv == attemptMove(tiles, heap, difficulty, index)
       IN  /\ tiles' = mv.tiles
           /\ heap' = mv.heap
           /\ swapsDone' = IF mv.accepted THEN swapsDone + 1 ELSE swapsDone
    /\ lastOp' = [name |-> "move", arg |-> index]
    /\ UNCHANGED difficulty
    /\ UNCHANGED sessionVars

CoreNext ==
    \/ \E d \in Difficulties : CoreFactory(d)
    \/ \E stepCount \in 0..limits.steps : CoreShuffle(stepCount)
    \/ \E index \in DOMAIN tiles : CoreMove(index)

CoreSpec == CoreInit /\ [][CoreNext]_vars

-----------------------------------------------------------------------------
(* The image slicer alone: the geometry of sliceImage (puzzleUtils.ts 26-64) *)
(* applied to images of given width and height. offsetX and offsetY may be  *)
(* halves, so a region records twice its source coordinates.                *)

MaxTileSide == 512

imageRegionUncentered(width, height, gridSize, row, col) ==
    LET size == Min(width, height)
        tileSize == size \div gridSize
        targetTileSize == Min(MaxTileSide, tileSize)
    IN  [sx2 |-> 2 * col * tileSize,
         sy2 |-> 2 * row * tileSize,
         sw |-> tileSize, sh |-> tileSize,
         dw |-> targetTileSize, dh |-> targetTileSize]

\* lines 26-35 and the drawImage call of lines 48-58 for one (row, col)
imageRegion(width, height, gridSize, row, col) ==
    LET size == Min(width, height)
        offsetX2 == width - size
        offsetY2 == height - size
        tileSize == size \div gridSize
        targetTileSize == Min(MaxTileSide, tileSize)
    IN  [sx2 |-> offsetX2 + 2 * col * tileSize,
         sy2 |-> offsetY2 + 2 * row * tileSize,
         sw |-> tileSize, sh |-> tileSize,
         dw |-> targetTileSize, dh |-> targetTileSize]

\* the inner loop (line 43) from col on: the pieces it pushes, in order
RECURSIVE sliceColumns(_, _, _, _, _)
sliceColumns(width, height, gridSize, row, col) ==
    IF col < gridSize
    THEN <<imageRegion(width, height, gridSize, row, col)>>
            \o sliceColumns(width, height, gridSize, row, col + 1)
    ELSE <<>>

\* the outer loop (line 42) from row on
RECURSIVE sliceRows(_, _, _, _)
sliceRows(width, height, gridSize, row) ==
    IF row < gridSize
    THEN sliceColumns(width, height, gridSize, row, 0)
            \o sliceRows(width, height, gridSize, row + 1)
    ELSE <<>>

\* the array sliceImage returns for an image of that width and height
slicePieces(width, height, gridSize) ==
    LET pushed == sliceRows(width, height, gridSize, 0)
    IN  [k \in 0..(Len(pushed) - 1) |-> pushed[k + 1]]

\* widths and heights of the images sliced
ImageSides == {2, 100, 600, 601, 900, 1600}

sliceBoard(width, height, d) ==
    LET pieces == slicePieces(width, height, d)
    IN  [tiles |-> solvedArray(pieces), heap |-> generateSolvedState(pieces, d)]

SliceInit ==
    /\ difficulty \in Difficulties
    /\ \E width \in ImageSides, height \in ImageSides :
          /\ lastOp = [name |-> "slice", arg |-> difficulty,
                       width |-> width, height |-> height]
          /\ tiles = sliceBoard(width, height, difficulty).tiles
          /\ heap = sliceBoard(width, height, difficulty).heap
    /\ gameState = "IDLE"
    /\ moves = 0
    /\ timeElapsed = 0
    /\ currentImage = DEFAULT_IMAGE
    /\ error = NoError
    /\ timerActive = FALSE
    /\ pending = EmptyBag
    /\ issued = 0
    /\ limits = [requests |-> 0, steps |-> 0, moves |-> 0, time |-> 0]
    /\ swapsDone = 0

\* generateSolvedState(await sliceImage(img, d), d) for an image of the
\* given width and height (App.tsx:30-31)
SliceOther(width, height, d) ==
    /\ difficulty' = d
    /\ lastOp' = [name |-> "slice", arg |-> d, width |-> width, height |-> height]
    /\ tiles' = sliceBoard(width, height, d).tiles
    /\ heap' = sliceBoard(width, height, d).heap
    /\ swapsDone' = 0
    /\ UNCHANGED sessionVars

SliceNext ==
    \E width \in ImageSides, height \in ImageSides, d \in Difficulties :
        SliceOther(width, height, d)

SliceSpec == SliceInit /\ [][SliceNext]_vars

-----------------------------------------------------------------------------
(* Properties                                                               *)

Row(i, n) == i \div n
Col(i, n) == i % n
\* directly above, below, left or right inside an n-column grid
ManhattanAdjacent(i, j, n) ==
    Abs(Row(i, n) - Row(j, n)) + Abs(Col(i, n) - Col(j, n)) = 1
EmptyPositions == {i \in DOMAIN tiles : heap[tiles[i]].isEmpty}
\* the board as a permutation: the home position of the tile at each index
arrangement(arr, hp) == [i \in DOMAIN arr |-> hp[arr[i]].correctPos]
\* the side of a square board
Side(P) == CHOOSE n \in 0..ArrayLength(P) : n * n = ArrayLength(P)
BlankAt(P) == CHOOSE i \in DOMAIN P : P[i] = ArrayLength(P) - 1

\* the boards one legal single swap away from P
legalSwaps(P) ==
    LET e == BlankAt(P)
    IN  {[P EXCEPT ![e] = P[q], ![q] = P[e]] :
            q \in {q \in DOMAIN P : ManhattanAdjacent(e, q, Side(P))}}

\* the boards exactly k legal single swaps away from the boards of S
RECURSIVE legalImage(_, _)
legalImage(S, k) ==
    IF k = 0 THEN S ELSE legalImage(UNION {legalSwaps(P) : P \in S}, k - 1)

\* the boards at most k legal single swaps away from the boards of S
RECURSIVE legalReach(_, _)
legalReach(S, k) ==
    IF k = 0 THEN S ELSE S \cup legalReach(UNION {legalSwaps(P) : P \in S}, k - 1)

Inversions(P) ==
    Cardinality({pr \in (DOMAIN P) \X (DOMAIN P) : pr[1] < pr[2] /\ P[pr[1]] > P[pr[2]]})
\* the rows and columns between the blank and its home, the last cell
BlankDistance(P) ==
    (Side(P) - 1 - Row(BlankAt(P), Side(P))) + (Side(P) - 1 - Col(BlankAt(P), Side(P)))
\* the parity class of the solved board: the permutation's parity equals the
\* parity of the blank's distance from home
InSolvedParityClass(P) == (Inversions(P) + BlankDistance(P)) % 2 = 0
SolvedArrangement(P) == [i \in DOMAIN P |-> i]

\* C1 (DeepSpec): in the board the session holds, every tile's currentPos is
\* its index in the tile sequence (so the currentPos values are a permutation
\* of 0..n*n-1).
C1_CurrentPosIsIndex ==
    \A i \in DOMAIN tiles : heap[tiles[i]].currentPos = i

\* C2 (Spec): in every state the session reaches while PLAYING, a click at
\* index is accepted (the tile and the empty cell are exchanged and the move
\* is counted) if and only if index is Manhattan-adjacent to the empty cell
\* in a grid of `difficulty` columns; every other click, the empty cell's own
\* index included, leaves the board, the tiles and the move count as they are.
C2_ClickAcceptedIffAdjacent ==
    gameState = "PLAYING" =>
        \A e \in EmptyPositions :
            \A index \in DOMAIN tiles :
                LET out == handleTileClick(index)
                IN  IF ManhattanAdjacent(index, e, difficulty)
                    THEN /\ out.moves = moves + 1
                         /\ out.tiles = [tiles EXCEPT ![index] = tiles[e],
                                                      ![e] = tiles[index]]
                    ELSE /\ out.tiles = tiles
                         /\ out.heap = heap
                         /\ out.moves = moves

\* an accepted click has been counted
C2_Witness == gameState \in {"PLAYING", "WON"} /\ moves >= 1

\* C3 (Spec): every board the session holds has exactly one tile with
\* isEmpty, at exactly one position; it is the tile the factory created for
\* the last cell (correctPos = n*n-1, n the side of the board); the board
\* holds exactly the tiles the factory created, and each of them still has the
\* id, correctPos and isEmpty the factory gave it, whatever shuffles (Start)
\* and clicks have happened since.
C3_OneEmptyTileForever ==
    tiles # EmptyArray =>
        /\ Cardinality(EmptyPositions) = 1
        /\ Range(tiles) = DOMAIN heap
        /\ \E n \in Difficulties :
              /\ ArrayLength(tiles) = n * n
              /\ \A r \in DOMAIN heap :
                    /\ heap[r].id = r
                    /\ heap[r].correctPos = r
                    /\ heap[r].isEmpty = (r = n * n - 1)

\* shuffle and an accepted move have both moved the empty tile
C3_Witness ==
    /\ tiles # EmptyArray
    /\ moves >= 1
    /\ EmptyPositions # {ArrayLength(tiles) - 1}

\* C4 (CoreSpec): every board shuffle returns from a solved n x n board, and
\* every board accepted moves reach from it, is in the permutation-parity
\* class of the solved board, and the solved arrangement is reachable from it
\* by legal moves (no more of them than swaps were applied).
C4_ShuffledBoardSolvable ==
    LET P == arrangement(tiles, heap)
    IN  /\ InSolvedParityClass(P)
        /\ SolvedArrangement(P) \in legalReach({P}, swapsDone)

\* a 4 x 4 board a shuffle of three steps left unsolved
C4_Witness ==
    /\ lastOp.name = "shuffle"
    /\ lastOp.arg = 3
    /\ difficulty = MEDIUM
    /\ ~isSolved(tiles, heap)

\* C5 (CoreSpec): shuffle(board, n, stepCount) returns a board exactly
\* stepCount legal single swaps (empty cell with the cell directly above,
\* below, left or right of it, inside the grid) away from its input, never
\* throws, and with stepCount = 0 returns the input board unchanged.
C5_ShuffleIsStepCountLegalSwaps ==
    [][\A stepCount \in 0..limits.steps : CoreShuffle(stepCount) =>
          /\ arrangement(tiles', heap') \in
                legalImage({arrangement(tiles, heap)}, stepCount)
          /\ \A i \in DOMAIN tiles' : heap'[tiles'[i]].currentPos = i
          /\ stepCount = 0 => (tiles' = tiles /\ heap' = heap)]_vars

\* a shuffle of two steps has run on a 5 x 5 board
C5_Witness ==
    /\ lastOp.name = "shuffle"
    /\ lastOp.arg = 2
    /\ difficulty = HARD
    /\ swapsDone = 2

\* C6 (DeepSpec): whenever the session is WON the current board is solved.
C6_WonBoardIsSolved == gameState = "WON" => isSolved(tiles, heap)

\* C7 (Spec): once a board is present it has difficulty * difficulty tiles
\* (the empty board before the first image has loaded is not counted).
C7_BoardHasDifficultySquaredTiles ==
    tiles # EmptyArray => ArrayLength(tiles) = difficulty * difficulty

\* C8 (Spec): the session is never left in GENERATING: it is GENERATING only
\* while a handleGenerateImage run is still in flight.
C8_GeneratingOnlyWhileInFlight ==
    gameState = "GENERATING" =>
        \E r \in BagToSet(pending) : r.kind \in {"generate", "genslice"}

\* C9 (Spec): the session leaves PLAYING only by an accepted move that solves
\* the board (to WON) or by the completion of a give-up/reset (to IDLE), and
\* the completion of any other load, upload or generation leaves the state
\* PLAYING and the board being played.
C9_LeavesPlaying ==
    (gameState = "PLAYING" /\ gameState' # "PLAYING") =>
        \/ /\ \E index \in DOMAIN tiles : TileClick(index)
           /\ gameState' = "WON"
           /\ isSolved(tiles', heap')
        \/ /\ \E r \in BagToSet(pending) : r.reset /\ SliceDone(r, TRUE)
           /\ gameState' = "IDLE"

C9_OtherCompletionsKeepPlay ==
    (/\ gameState = "PLAYING"
     /\ \E r \in BagToSet(pending), ok \in BOOLEAN :
           /\ ~r.reset
           /\ GenerateDone(r, ok) \/ ReadDone(r, ok) \/ SliceDone(r, ok))
    => (gameState' = "PLAYING" /\ tiles' = tiles /\ heap' = heap)

C9_PlayingLeftOnlyBySolveOrReset ==
    [][C9_LeavesPlaying /\ C9_OtherCompletionsKeepPlay]_vars

\* C10 (Spec): the result of an initializeBoard call that is no longer the
\* most recently issued one, completing when every later call has already
\* completed, never replaces the board.
C10_StaleResultNeverApplied ==
    [][\A r \in BagToSet(pending) :
          (/\ r.stale
           /\ \A q \in BagToSet(pending) : q.kind \in SliceKinds => q.stale
           /\ SliceDone(r, TRUE))
          => UNCHANGED <<tiles, heap, currentImage>>]_vars

\* C11 (CoreSpec): shuffle and a move leave the board they were given as it
\* was: every tile of the input sequence still has currentPos equal to its
\* index in that sequence after the operation.
C11_InputBoardNotMutated ==
    [][((\E stepCount \in 0..limits.steps : CoreShuffle(stepCount))
          \/ (\E index \in DOMAIN tiles : CoreMove(index)))
        => \A i \in DOMAIN tiles : heap'[tiles[i]].currentPos = i]_vars

\* C12 (Spec): in every state the session reaches, a click on an index that
\* is not Manhattan-adjacent to the empty cell (in the grid of `difficulty`
\* columns the handler uses) leaves the board, the tiles, the move counter,
\* the elapsed time, the session state and the error as they are.
C12_RejectedClickChangesNothing ==
    \A e \in EmptyPositions :
        \A index \in DOMAIN tiles :
            ~ManhattanAdjacent(index, e, difficulty) =>
                handleTileClick(index) =
                    [tiles |-> tiles, heap |-> heap, moves |-> moves,
                     gameState |-> gameState, timeElapsed |-> timeElapsed,
                     error |-> error]

\* the session is PLAYING a shuffled board on which some tile is not next to
\* the empty cell, and a click on it is refused
C12_Witness ==
    /\ gameState = "PLAYING"
    /\ ~isSolved(tiles, heap)
    /\ \E e \in EmptyPositions :
          \E index \in DOMAIN tiles \ {e} :
              /\ ~ManhattanAdjacent(index, e, difficulty)
              /\ handleTileClick(index).moves = moves

\* C13 (Spec): the move counter grows only by an accepted click while
\* PLAYING, and then by exactly one; every click that moves a tile is counted
\* and no other click is; entering PLAYING sets the counter to 0 and nothing
\* resets it during play. So while PLAYING the counter is the number of moves
\* accepted since the last start.
C13_ClickCountsOncePerAcceptedMove ==
    \A index \in DOMAIN tiles :
        LET out == handleTileClick(index)
        IN  out.moves = IF out.tiles # tiles THEN moves + 1 ELSE moves

C13_CounterStep ==
    /\ moves' > moves =>
          /\ gameState = "PLAYING"
          /\ moves' = moves + 1
          /\ tiles' # tiles
          /\ \E index \in DOMAIN tiles : TileClick(index)
    /\ (gameState # "PLAYING" /\ gameState' = "PLAYING") => moves' = 0
    /\ (gameState = "PLAYING" /\ gameState' = "PLAYING") => moves' >= moves

C13_MovesCountAcceptedMoves ==
    []C13_ClickCountsOncePerAcceptedMove /\ [][C13_CounterStep]_vars

\* a started game in which an accepted move has been counted and the board
\* is not solved
C13_Witness ==
    /\ gameState = "PLAYING"
    /\ moves = 1
    /\ timeElapsed = 0
    /\ ~isSolved(tiles, heap)
    /\ EmptyPositions # {ArrayLength(tiles) - 1}

\* C14 (Spec): when the slicing of an initializeBoard call fails, the board,
\* the tiles, the current image and the move counter are unchanged, an error
\* is set, and the session is in the state it was in before the operation
\* that asked for the slice began: the state is not changed by the failure,
\* and after the failed slice of a generation (which began outside GENERATING
\* and is the only generation in flight) the session is not GENERATING.
C14_FailedSliceRestoresPriorState ==
    [][\A r \in BagToSet(pending) :
          SliceDone(r, FALSE) =>
              /\ UNCHANGED <<tiles, heap, currentImage, moves>>
              /\ error' # NoError
              /\ r.kind = "slice" => gameState' = gameState
              /\ (/\ r.kind = "genslice"
                  /\ \A q \in BagToSet(pending') :
                        q.kind \notin {"generate", "genslice"})
                 => gameState' # "GENERATING"]_vars

\* C15 (Spec): when the image generation fails (generatePuzzleImage throws in
\* each of its failure modes), the session is IDLE afterwards, an error is
\* set, and the board, its tiles, the current image, the move counter and the
\* difficulty are as they were.
C15_FailedGenerationReturnsToIdle ==
    [][\A r \in BagToSet(pending) :
          GenerateDone(r, FALSE) =>
              /\ gameState' = "IDLE"
              /\ error' # NoError
              /\ UNCHANGED <<tiles, heap, currentImage, moves, difficulty>>]_vars

\* a generation has failed with a board on screen and nothing else in flight
C15_Witness ==
    /\ error = "generate"
    /\ gameState = "IDLE"
    /\ tiles # EmptyArray
    /\ pending = EmptyBag

C18_StartAlwaysStartsPlay ==
    startEnabled =>
        /\ gameState \in {"IDLE", "WON"}
        /\ \A run \in shuffleTiles(tiles, heap, difficulty,
                                   startStepCount(difficulty)) : ~run.threw

\* C19 (Spec): the interval that counts the elapsed time runs only while the
\* session is PLAYING, and the elapsed time grows only by a tick of one while
\* PLAYING: never in IDLE, GENERATING or WON.
C19_TimerRunsOnlyWhilePlaying == timerActive => gameState = "PLAYING"

C19_TimeStep ==
    timeElapsed' > timeElapsed =>
        /\ gameState = "PLAYING"
        /\ timeElapsed' = timeElapsed + 1
        /\ UNCHANGED <<gameState, tiles, heap, moves>>

C19_TimeGrowsOnlyWhilePlaying ==
    []C19_TimerRunsOnlyWhilePlaying /\ [][C19_TimeStep]_vars

\* the clock ticked during a game that is now won, and has stopped
C19_Witness ==
    /\ gameState = "WON"
    /\ timeElapsed >= 1
    /\ ~timerActive

\* lists of n*n tile images: the pieces of an image, and one piece repeated
TileImageLists(n) ==
    {sliceImage(img, n) : img \in {DEFAULT_IMAGE, "upload", "generated"}}
        \cup {[k \in 0..(n * n - 1) |-> [src |-> "upload", row |-> 0, col |-> 0]]}

\* the board (arr, hp) is the solved board of pieces for grid size n
FreshSolvedBoard(pieces, n, arr, hp) ==
    /\ DOMAIN arr = DOMAIN pieces
    /\ ArrayLength(arr) = n * n
    /\ \A i \in DOMAIN arr :
          /\ hp[arr[i]].id = i
          /\ hp[arr[i]].correctPos = i
          /\ hp[arr[i]].currentPos = i
          /\ hp[arr[i]].imageUrl = pieces[i]
          /\ hp[arr[i]].isEmpty = (i = n * n - 1)
    /\ isSolved(arr, hp)

\* C20 (CoreSpec): for n in {3,4,5} and a list of n*n tile images,
\* generateSolvedState returns the tiles in input order, the tile at index i
\* with id = correctPos = currentPos = i, the i-th image, and isEmpty only for
\* i = n*n-1, and isSolved of the board is true: for the board the factory
\* has just produced, and for each list of TileImageLists.
C20_SolvedStateIsSolved ==
    /\ lastOp.name = "factory" =>
          FreshSolvedBoard(sliceImage(currentImage, lastOp.arg), lastOp.arg,
                           tiles, heap)
    /\ \A pieces \in TileImageLists(difficulty) :
          FreshSolvedBoard(pieces, difficulty, solvedArray(pieces),
                           generateSolvedState(pieces, difficulty))

\* the factory has produced a 5 x 5 board
C20_Witness ==
    /\ lastOp = [name |-> "factory", arg |-> HARD]
    /\ ArrayLength(tiles) = HARD * HARD
    /\ swapsDone = 0

\* the candidates the filter of line 97 leaves
notPrevious(emptyIdx, previousIdx, gridSize) ==
    {t \in Range(validMoves(emptyIdx, gridSize)) : t # previousIdx}

\* from the empty cell at emptyIdx, reached from previousIdx (-1: no step
\* yet), the filter leaves a candidate, so that the fallback is not taken,
\* and every index the step can select is a neighbour other than previousIdx
NoBacktrackStep(emptyIdx, previousIdx, gridSize) ==
    /\ notPrevious(emptyIdx, previousIdx, gridSize) # {}
    /\ shuffleTargets(emptyIdx, previousIdx, gridSize)
          = notPrevious(emptyIdx, previousIdx, gridSize)
    /\ previousIdx \notin shuffleTargets(emptyIdx, previousIdx, gridSize)

\* C21 (CoreSpec): in shuffle every step has a candidate left by the
\* anti-backtrack filter, never takes the fallback and never moves the empty
\* cell back to where it was before the previous step: at every step of
\* every run of shuffle on every board CoreSpec reaches (n in {3,4,5}), and
\* for every cell of an n x n grid, n from 2 to 5, entered from any of its
\* neighbours.
C21_ShuffleNeverBacktracks ==
    /\ \A k \in 0..limits.steps :
          \A run \in shuffleTiles(tiles, heap, difficulty, k) :
              /\ ~run.threw
              /\ NoBacktrackStep(run.emptyIdx, run.previousIdx, difficulty)
    /\ \A n \in (EASY - 1)..HARD :
          \A e \in 0..(n * n - 1) :
              \A p \in Range(validMoves(e, n)) \cup {-1} :
                  NoBacktrackStep(e, p, n)

\* a shuffle of three steps has run on the solved 3 x 3 board and taken the
\* empty cell through the middle of the board to the top row
C21_Witness ==
    /\ lastOp = [name |-> "shuffle", arg |-> 3]
    /\ difficulty = EASY
    /\ swapsDone = 3
    /\ EmptyPositions = {1}

\* C22 (Spec): whenever the session is IDLE and holds a board, every tile of
\* the board is at its correctPos.
C22_IdleBoardIsSolved ==
    (gameState = "IDLE" /\ tiles # EmptyArray) =>
        \A i \in DOMAIN tiles : heap[tiles[i]].correctPos = i

\* the steps that take the empty cell three times around a block of 2 x 2
\* cells (4 cells, 3 tiles), which puts every tile of the block back
BlockLoopSteps == 4 * 3

\* the runs of rounds * BlockLoopSteps further steps from the runs R that
\* are on a solved board after every BlockLoopSteps steps
RECURSIVE returningRuns(_, _, _)
returningRuns(R, gridSize, rounds) ==
    IF rounds = 0 THEN R
    ELSE returningRuns({run \in shuffleLoop(R, gridSize, BlockLoopSteps) :
                           ~run.threw /\ isSolved(run.tiles, run.heap)},
                       gridSize, rounds - 1)

\* C23 (CoreSpec): the shuffle of the start action, difficulty * 20 steps
\* from the solved board the factory produced, never returns a solved board.
\* Stated for the runs that can be enumerated: where difficulty * 20 is a
\* multiple of BlockLoopSteps, no run of that many steps that passes through
\* a solved board every BlockLoopSteps steps exists (each of them would be a
\* run of shuffleTiles(tiles, difficulty, difficulty * 20) ending solved).
C23_StartShuffleNeverSolved ==
    (/\ lastOp.name = "factory"
     /\ (difficulty * ShuffleFactor) % BlockLoopSteps = 0)
    => returningRuns(shuffleTiles(tiles, heap, difficulty, 0), difficulty,
                     (difficulty * ShuffleFactor) \div BlockLoopSteps) = {}


\* the piece sliceImage returned for (row, col) of the sliced image, read
\* off the board built from the pieces
pieceAt(row, col) == heap[tiles[row * difficulty + col]].imageUrl

(* C24: for an image of integer width w and height h and n in {3, 4, 5},   *)
(* slicing returns exactly n*n tiles in row-major order; the tile of row r *)
(* and column c is cut from the centred square of side size = min(w, h),   *)
(* at source offset ((w-size)/2 + c*tileSize, (h-size)/2 + r*tileSize)     *)
(* with tileSize = floor(size/n), and is rendered at side                  *)
(* min(512, tileSize). A 900x600 image with n = 3 gives 9 tiles of 200x200 *)
(* cut from the centred 600x600 square. Offsets are compared doubled, so   *)
(* that a half-pixel offset is compared exactly.                           *)
C24_SliceGeometry ==
    lastOp.name = "slice" =>
        LET w == lastOp.width
            h == lastOp.height
            n == lastOp.arg
            size == IF w < h THEN w ELSE h
            tileSize == CHOOSE q \in 0..size : q * n <= size /\ size < (q + 1) * n
            side == IF tileSize > 512 THEN 512 ELSE tileSize
        IN  /\ n \in {3, 4, 5}
            /\ DOMAIN tiles = 0..(n * n - 1)
            /\ \A r \in 0..(n - 1), c \in 0..(n - 1) :
                  /\ pieceAt(r, c).sx2 = (w - size) + 2 * (c * tileSize)
                  /\ pieceAt(r, c).sy2 = (h - size) + 2 * (r * tileSize)
                  /\ pieceAt(r, c).sw = tileSize
                  /\ pieceAt(r, c).sh = tileSize
                  /\ pieceAt(r, c).dw = side
                  /\ pieceAt(r, c).dh = side
                  \* the cut lies inside the centred square
                  /\ pieceAt(r, c).sx2 + 2 * tileSize <= (w - size) + 2 * size
                  /\ pieceAt(r, c).sy2 + 2 * tileSize <= (h - size) + 2 * size
            /\ (w = 900 /\ h = 600 /\ n = 3) =>
                  /\ ArrayLength(tiles) = 9
                  /\ \A r \in 0..2, c \in 0..2 :
                        pieceAt(r, c) = [sx2 |-> 2 * (150 + 200 * c),
                                         sy2 |-> 2 * (200 * r),
                                         sw |-> 200, sh |-> 200,
                                         dw |-> 200, dh |-> 200]

\* the 900x600 image sliced for a 3x3 grid: nine pieces, the last one cut at
\* source offset (550, 400)
C24_Witness ==
    /\ lastOp = [name |-> "slice", arg |-> 3, width |-> 900, height |-> 600]
    /\ ArrayLength(tiles) = 9
    /\ pieceAt(2, 2).sx2 = 1100
    /\ pieceAt(2, 2).sy2 = 800
    /\ pieceAt(2, 2).dw = 200

=============================================================================
